---- MODULE Spec2Model ----
(***************************************************************************)
(* CSVDatabase (src/datacsv.py): a record store kept in one CSV file.      *)
(*                                                                         *)
(* The file is modelled as the sequence of rows the csv module reads from  *)
(* and writes to it (each row a sequence of strings); csv.DictReader and   *)
(* csv.DictWriter are modelled by what they do with those rows: the        *)
(* reader takes its field names from the first row of the FILE, the writer *)
(* takes them from self.headers and refuses a dict with any other key.     *)
(* Every public method is one action; `last` records the call and its      *)
(* outcome, `pre` the file as it was when the call began.  The values of   *)
(* the model hold no delimiter, quote or line break, so the csv text of a  *)
(* row is its fields joined by commas and reads back as the same fields.   *)
(* Exceptions are named after the raise statement they come from (the code *)
(* raises ValueError or TypeError with different messages).                *)
(***************************************************************************)
EXTENDS Integers, Sequences, FiniteSets, TLC

\* Largest number of rows (first line included) the file may hold.
MaxRows == 3

\* self.headers: the fields the handle was constructed with.
Schema == <<"a", "b">>

\* Field values callers pass; "a" is also a field name, "" is also the
\* value fill_missing supplies.
Values == {"a", ""}

\* A key that is not a field of the Schema.
ExtraKey == "z"

\* Python's None, as returned by dict.get for an absent key.
NoneVal == "<None>"

VARIABLES exists, file, last, pre

vars == <<exists, file, last, pre>>

Range(s) == {s[i] : i \in DOMAIN s}

Min(S) == CHOOSE m \in S : \A n \in S : m <= n

Headers == Range(Schema)

Keys == Headers \cup {ExtraKey}

\* Python dicts with keys among ks and values among vs.
DictsOver(ks, vs) == UNION {[s -> vs] : s \in SUBSET ks}

\* Dicts callers pass as rows, conditions and new_data.
Dicts == {d \in DictsOver(Keys, Values) : ExtraKey \in DOMAIN d => d[ExtraKey] = "a"}

EmptyDict == CHOOSE d \in Dicts : DOMAIN d = {}

\* Dicts callers pass to update as new_data: at most one field each.
NewDatas == {d \in Dicts : Cardinality(DOMAIN d) <= 1}

\* dict.get(k)
Get(d, k) == IF k \in DOMAIN d THEN d[k] ELSE NoneVal

(***************************************************************************)
(* csv.DictReader / csv.DictWriter                                         *)
(***************************************************************************)

\* dict(zip(fieldnames, row)): a repeated field name keeps its last value.
DictRow(fieldnames, row) ==
    [k \in Range(fieldnames) |->
        row[CHOOSE i \in DOMAIN fieldnames :
                /\ fieldnames[i] = k
                /\ \A j \in DOMAIN fieldnames : fieldnames[j] = k => j <= i]]

\* list(csv.DictReader(f)): the first row of the file names the fields.
ReadRows(f) ==
    IF f = <<>> THEN <<>>
    ELSE [i \in 1..(Len(f) - 1) |-> DictRow(f[1], f[i + 1])]

\* DictWriter._dict_to_list with restval = "".
DictToList(d) ==
    [i \in DOMAIN Schema |-> IF Schema[i] \in DOMAIN d THEN d[Schema[i]] ELSE ""]

\* Number of leading dicts writerows serialises before extrasaction="raise"
\* stops it.
GoodPrefixLen(rows) ==
    LET bad == {i \in DOMAIN rows : DOMAIN rows[i] \ Headers # {}}
    IN  IF bad = {} THEN Len(rows) ELSE Min(bad) - 1

\* open(mode="w"); writeheader(); writerows(rows): the file is truncated,
\* then holds the header and the rows written before a refused dict.
WriteAll(rows) ==
    LET n == GoodPrefixLen(rows)
    IN  [file |-> <<Schema>> \o [i \in 1..n |-> DictToList(rows[i])],
         ok   |-> n = Len(rows)]

(***************************************************************************)
(* Outcomes                                                                *)
(***************************************************************************)

Raise(ex, f, e) == [exists |-> ex, file |-> f, out |-> e, rows |-> <<>>]

Return(ex, f, v) == [exists |-> ex, file |-> f, out |-> v, rows |-> <<>>]

Found(ex, f, rs) == [exists |-> ex, file |-> f, out |-> "rows", rows |-> rs]

IsError(o) == o \notin {"True", "False"}

(***************************************************************************)
(* Conditions                                                              *)
(***************************************************************************)

\* Callables: lambda row: check(row[k]) == v, where check raises on the
\* value `bad` (as int(row["age"]) does on a non-number) and row[k] raises
\* KeyError when the row has no field k.
Fns == {fn \in [k : Headers, v : Values, bad : Values \cup {NoneVal}] : fn.v # fn.bad}

Conditions ==
    {[kind |-> "none"], [kind |-> "other"]}
        \cup {[kind |-> "dict", d |-> d] : d \in Dicts}
        \cup {[kind |-> "fn", fn |-> fn] : fn \in Fns}

\* condition(row)
CallFn(fn, row) ==
    IF fn.k \notin DOMAIN row THEN "PredicateError"
    ELSE IF row[fn.k] = fn.bad THEN "PredicateError"
    ELSE IF row[fn.k] = fn.v THEN "True" ELSE "False"

\* all(row.get(k) == v for k, v in condition.items())
AllEqual(row, d) == \A k \in DOMAIN d : Get(row, k) = d[k]

\* CSVDatabase._match
Match(row, cond) ==
    IF cond.kind = "fn" THEN CallFn(cond.fn, row)
    ELSE IF cond.kind = "dict" THEN
        IF DOMAIN cond.d = {} THEN "EmptyConditionError"
        ELSE IF DOMAIN cond.d \ Headers # {} THEN "InvalidConditionKeyError"
        ELSE IF AllEqual(row, cond.d) THEN "True" ELSE "False"
    ELSE "InvalidConditionTypeError"

(***************************************************************************)
(* Methods, as functions of the file and the arguments                     *)
(***************************************************************************)

\* CSVDatabase.__init__: a missing file is created with the header, unless
\* no fields were given.
ConstructResult(ex, f, fields) ==
    IF ex THEN Return(ex, f, "ok")
    ELSE IF fields # <<>> THEN Return(TRUE, <<fields>>, "ok")
    ELSE Raise(ex, f, "SchemaRequiredError")

\* row = {key: row.get(key, "") for key in self.headers}
FillMissing(row) == [k \in Headers |-> IF k \in DOMAIN row THEN row[k] ELSE ""]

MissingKeysNone(row) == {}

\* missing_keys = [key for key in self.headers if key not in row]
MissingKeys(row) == Headers \ DOMAIN row

\* extra_keys = [key for key in row if key not in self.headers]
ExtraKeys(row) == DOMAIN row \ Headers

\* CSVDatabase.insert
InsertResult(ex, f, isdict, row, fill) ==
    IF ~isdict \/ DOMAIN row = {} THEN Raise(ex, f, "InvalidRecordError")
    ELSE IF ~fill /\ MissingKeys(row) # {} THEN Raise(ex, f, "MissingFieldsError")
    ELSE LET r == IF fill THEN FillMissing(row) ELSE row
         IN  IF ExtraKeys(r) # {} THEN Raise(ex, f, "UnexpectedFieldsError")
             ELSE Return(TRUE, f \o <<DictToList(r)>>, "True")

\* CSVDatabase.find_all
FindAllResult(ex, f) ==
    IF ~ex THEN Raise(ex, f, "FileNotFoundError") ELSE Found(ex, f, ReadRows(f))

\* CSVDatabase.find; "" is the falsy key and the falsy value.
FindResult(ex, f, key, value) ==
    IF key = "" \/ value = "" THEN Raise(ex, f, "InvalidArgumentError")
    ELSE IF ~ex THEN Raise(ex, f, "FileNotFoundError")
    ELSE Found(ex, f, SelectSeq(ReadRows(f), LAMBDA r : Get(r, key) = value))

FirstErrorSwallowed(outs) == ""

\* The first error a pass over the rows runs into, "" if none.
FirstError(outs) ==
    LET errs == {i \in DOMAIN outs : IsError(outs[i])}
    IN  IF errs = {} THEN "" ELSE outs[Min(errs)]

\* CSVDatabase.find_where
FindWhereResult(ex, f, cond) ==
    IF cond.kind = "none" THEN Raise(ex, f, "InvalidConditionError")
    ELSE IF ~ex THEN Raise(ex, f, "FileNotFoundError")
    ELSE IF cond.kind = "fn" THEN
        LET rows == ReadRows(f)
            outs == [i \in DOMAIN rows |-> CallFn(cond.fn, rows[i])]
        IN  IF FirstError(outs) # "" THEN Raise(ex, f, FirstError(outs))
            ELSE Found(ex, f, SelectSeq(rows, LAMBDA r : CallFn(cond.fn, r) = "True"))
    ELSE IF cond.kind = "dict" THEN
        IF DOMAIN cond.d = {} THEN Raise(ex, f, "EmptyConditionError")
        ELSE IF DOMAIN cond.d \ Headers # {} THEN Raise(ex, f, "InvalidConditionKeyError")
        ELSE Found(ex, f, SelectSeq(ReadRows(f), LAMBDA r : AllEqual(r, cond.d)))
    ELSE Raise(ex, f, "InvalidConditionTypeError")

RewriteAlways(changed, ex, f, rows) ==
    LET w == WriteAll(rows)
    IN  IF w.ok THEN Return(TRUE, w.file, "True") ELSE Raise(TRUE, w.file, "WriteError")

\* if removed / if updated: rewrite the file, else leave it alone.
RewriteIf(changed, ex, f, rows) ==
    IF changed
    THEN LET w == WriteAll(rows)
         IN  IF w.ok THEN Return(TRUE, w.file, "True") ELSE Raise(TRUE, w.file, "WriteError")
    ELSE Return(ex, f, "False")

\* CSVDatabase.delete_where
DeleteWhereResult(ex, f, cond) ==
    IF cond.kind = "none" THEN Raise(ex, f, "InvalidConditionError")
    ELSE IF ~ex THEN Raise(ex, f, "FileNotFoundError")
    ELSE LET rows == ReadRows(f)
             outs == [i \in DOMAIN rows |-> Match(rows[i], cond)]
         IN  IF FirstError(outs) # "" THEN Raise(ex, f, FirstError(outs))
             ELSE RewriteIf(\E i \in DOMAIN rows : outs[i] = "True", ex, f,
                            SelectSeq(rows, LAMBDA r : Match(r, cond) = "False"))

\* row.update(new_data)
Merge(row, new_data) ==
    [k \in DOMAIN row \cup DOMAIN new_data |->
        IF k \in DOMAIN new_data THEN new_data[k] ELSE row[k]]

\* CSVDatabase.update
UpdateResult(ex, f, key, value, new_data) ==
    IF ~ex THEN Raise(ex, f, "FileNotFoundError")
    ELSE LET rows == ReadRows(f)
         IN  RewriteIf(\E i \in DOMAIN rows : Get(rows[i], key) = value, ex, f,
                       [i \in DOMAIN rows |->
                           IF Get(rows[i], key) = value
                           THEN Merge(rows[i], new_data) ELSE rows[i]])

\* CSVDatabase.delete
DeleteResult(ex, f, key, value) ==
    IF ~ex THEN Raise(ex, f, "FileNotFoundError")
    ELSE LET rows == ReadRows(f)
         IN  RewriteIf(\E i \in DOMAIN rows : Get(rows[i], key) = value, ex, f,
                       SelectSeq(rows, LAMBDA r : Get(r, key) # value))

\* CSVDatabase.delete_db
DeleteDbResult(ex, f) ==
    IF ex THEN Return(FALSE, <<>>, "True") ELSE Return(ex, f, "False")

(***************************************************************************)
(* The state machine: one action per public method                         *)
(***************************************************************************)

Call(op, arg, res) ==
    /\ pre' = [exists |-> exists, file |-> file]
    /\ exists' = res.exists
    /\ file' = res.file
    /\ last' = [op |-> op, arg |-> arg, out |-> res.out, rows |-> res.rows]

\* A store constructed on a name that has no file yet.
Init ==
    /\ exists = TRUE
    /\ file = <<Schema>>
    /\ last = [op |-> "construct", arg |-> [fields |-> Schema], out |-> "ok", rows |-> <<>>]
    /\ pre = [exists |-> FALSE, file |-> <<>>]

\* The store is constructed again on the same name: with the Schema, or
\* with no fields while the file is missing (which __init__ refuses). The
\* handle's fields stay the Schema throughout.
Construct ==
    \E fields \in {Schema, <<>>} :
        /\ fields = <<>> => ~exists
        /\ Call("construct", [fields |-> fields], ConstructResult(exists, file, fields))

Insert ==
    /\ Len(file) < MaxRows
    /\ \E isdict \in BOOLEAN, row \in Dicts, fill \in BOOLEAN :
          /\ ~isdict => row = EmptyDict
          /\ Call("insert", [isdict |-> isdict, row |-> row, fill |-> fill],
                  InsertResult(exists, file, isdict, row, fill))

FindAll == Call("find_all", <<>>, FindAllResult(exists, file))

Find ==
    \E key \in Keys \cup {""}, value \in Values :
        Call("find", [key |-> key, value |-> value],
             FindResult(exists, file, key, value))

FindWhere ==
    \E cond \in Conditions :
        Call("find_where", [cond |-> cond], FindWhereResult(exists, file, cond))

DeleteWhere ==
    \E cond \in Conditions :
        Call("delete_where", [cond |-> cond], DeleteWhereResult(exists, file, cond))

Update ==
    \E key \in Keys, value \in Values, new_data \in NewDatas :
        Call("update", [key |-> key, value |-> value, new_data |-> new_data],
             UpdateResult(exists, file, key, value, new_data))

Delete ==
    \E key \in Keys, value \in Values :
        Call("delete", [key |-> key, value |-> value],
             DeleteResult(exists, file, key, value))

DeleteDb == Call("delete_db", <<>>, DeleteDbResult(exists, file))

Next ==
    \/ Construct
    \/ Insert
    \/ FindAll
    \/ Find
    \/ FindWhere
    \/ DeleteWhere
    \/ Update
    \/ Delete
    \/ DeleteDb

Spec == Init /\ [][Next]_vars

(***************************************************************************)
(* Properties                                                              *)
(***************************************************************************)

\* The records find_all would return before and after the last call.
OldRows == ReadRows(pre.file)

NewRows == ReadRows(file)

Unchanged == file = pre.file /\ exists = pre.exists

\* C1: after insert(R) with R's keys exactly the Schema, in any state the
\* store can be in, find_all() returns a sequence whose last element is R.
C1_InsertThenFindAllEndsWithR ==
    (last.op = "insert" /\ last.arg.isdict /\ DOMAIN last.arg.row = Headers) =>
        LET r == FindAllResult(exists, file)
        IN  /\ last.out = "True"
            /\ r.out = "rows"
            /\ Len(r.rows) > 0
            /\ r.rows[Len(r.rows)] = last.arg.row

\* C2: insert of a record with a key that is not in the Schema fails with
\* UnexpectedFieldsError, with fill_missing or without, and appends nothing.
C2_ExtraFieldsAlwaysRejected ==
    (last.op = "insert" /\ last.arg.isdict /\ DOMAIN last.arg.row \ Headers # {}) =>
        last.out = "UnexpectedFieldsError" /\ Unchanged

\* C3: whenever the file exists its first row is the Schema and every
\* stored record has exactly the Schema's fields.
C3_FileMatchesSchema ==
    exists =>
        /\ file[1] = Schema
        /\ \A i \in DOMAIN NewRows : DOMAIN NewRows[i] = Headers

InvalidCondition(cond) ==
    \/ cond.kind = "other"
    \/ cond.kind = "dict" /\ (DOMAIN cond.d = {} \/ DOMAIN cond.d \ Headers # {})

ExpectedConditionError(cond) ==
    IF cond.kind = "other" THEN "InvalidConditionTypeError"
    ELSE IF DOMAIN cond.d = {} THEN "EmptyConditionError"
    ELSE "InvalidConditionKeyError"

\* C4: delete_where rejects an invalid condition whatever the store holds,
\* an empty store included, with the error find_where gives for it.
C4_DeleteWhereRejectsInvalidCondition ==
    (last.op = "delete_where" /\ pre.exists /\ InvalidCondition(last.arg.cond)) =>
        /\ last.out = ExpectedConditionError(last.arg.cond)
        /\ last.out = FindWhereResult(pre.exists, pre.file, last.arg.cond).out
        /\ Unchanged

UpdateHit(i) == Get(OldRows[i], last.arg.key) = last.arg.value

\* C5: update with new_data's keys all in the Schema sets, in the records
\* whose key field equals value, the fields of new_data and nothing else;
\* the other records, the count and the order stay; it returns true iff a
\* record matched and leaves the file alone when none did.
C5_UpdateChangesOnlyNamedFields ==
    (last.op = "update" /\ pre.exists /\ DOMAIN last.arg.new_data \subseteq Headers) =>
        /\ exists
        /\ Len(NewRows) = Len(OldRows)
        /\ \A i \in DOMAIN OldRows :
              /\ DOMAIN NewRows[i] = DOMAIN OldRows[i]
              /\ \A k \in DOMAIN OldRows[i] :
                    NewRows[i][k] =
                        IF UpdateHit(i) /\ k \in DOMAIN last.arg.new_data
                        THEN last.arg.new_data[k] ELSE OldRows[i][k]
        /\ last.out = IF \E i \in DOMAIN OldRows : UpdateHit(i) THEN "True" ELSE "False"
        /\ (~ \E i \in DOMAIN OldRows : UpdateHit(i)) => file = pre.file

\* The last call was delete, or delete_where with a condition that is
\* valid and raises on no stored record.
ValidDeleteCall ==
    /\ pre.exists
    /\ \/ last.op = "delete"
       \/ /\ last.op = "delete_where"
          /\ last.arg.cond.kind \in {"dict", "fn"}
          /\ ~InvalidCondition(last.arg.cond)
          /\ \A i \in DOMAIN OldRows : ~IsError(Match(OldRows[i], last.arg.cond))

\* The predicate of the last delete or delete_where call.
DeleteHit(r) ==
    IF last.op = "delete" THEN Get(r, last.arg.key) = last.arg.value
    ELSE Match(r, last.arg.cond) = "True"

KeepRow(r) == ~DeleteHit(r)

\* C6: after delete or delete_where with a valid condition the file holds
\* the Schema header and exactly the records the predicate rejected, in
\* their order and unaltered; it returns true iff a record matched.
C6_DeleteKeepsExactlyTheRest ==
    ValidDeleteCall =>
        /\ exists
        /\ file[1] = Schema
        /\ NewRows = SelectSeq(OldRows, KeepRow)
        /\ last.out = IF \E i \in DOMAIN OldRows : DeleteHit(OldRows[i])
                      THEN "True" ELSE "False"

\* The last call was a delete or a delete_where whose predicate was false
\* on every stored record.
ZeroMatch ==
    /\ pre.exists
    /\ \/ last.op = "delete"
       \/ last.op = "delete_where" /\ last.arg.cond.kind \in {"dict", "fn"}
    /\ \A i \in DOMAIN OldRows :
          IF last.op = "delete"
          THEN Get(OldRows[i], last.arg.key) # last.arg.value
          ELSE Match(OldRows[i], last.arg.cond) = "False"

\* C7: delete and delete_where that match no record return false and leave
\* the file exactly as it was.
C7_NoMatchNoWrite ==
    ZeroMatch => last.out = "False" /\ Unchanged

C7_Witness ==
    /\ ZeroMatch
    /\ last.op = "delete_where"
    /\ last.arg.cond.kind = "dict"
    /\ Len(OldRows) >= 2
    /\ last.out = "False"

ProperSubsetInsert ==
    /\ last.op = "insert"
    /\ last.arg.isdict
    /\ DOMAIN last.arg.row # {}
    /\ DOMAIN last.arg.row \subseteq Headers
    /\ DOMAIN last.arg.row # Headers

\* C8: insert with fill_missing of a non-empty record whose keys are a
\* proper subset of the Schema appends one row, "" in every absent field
\* and the supplied value in every other; without fill_missing it fails
\* with MissingFieldsError and appends nothing.
C8_FillMissingAppendsEmptyStrings ==
    ProperSubsetInsert =>
        IF last.arg.fill
        THEN /\ last.out = "True"
             /\ exists
             /\ Len(file) = Len(pre.file) + 1
             /\ SubSeq(file, 1, Len(pre.file)) = pre.file
             /\ \A i \in DOMAIN Schema :
                   file[Len(file)][i] =
                       IF Schema[i] \in DOMAIN last.arg.row
                       THEN last.arg.row[Schema[i]] ELSE ""
        ELSE last.out = "MissingFieldsError" /\ Unchanged

C8_Witness ==
    /\ ProperSubsetInsert
    /\ last.arg.fill
    /\ last.arg.row = [k \in {"b"} |-> "a"]
    /\ Len(pre.file) >= 2
    /\ file[Len(file)] = <<"", "a">>

\* The function condition of the last delete_where raised on record i.
RaisedOn(i) == CallFn(last.arg.cond.fn, OldRows[i]) = "PredicateError"

\* C9: when a function condition raises on some record, delete_where
\* raises that error and the file is as it was, even if earlier records
\* had matched.
C9_PredicateErrorPropagates ==
    (/\ last.op = "delete_where"
     /\ pre.exists
     /\ last.arg.cond.kind = "fn"
     /\ \E i \in DOMAIN OldRows : RaisedOn(i)) =>
        last.out = "PredicateError" /\ Unchanged

C9_Witness ==
    /\ last.op = "delete_where"
    /\ pre.exists
    /\ last.arg.cond.kind = "fn"
    /\ \E i, j \in DOMAIN OldRows :
          /\ i < j
          /\ CallFn(last.arg.cond.fn, OldRows[i]) = "True"
          /\ RaisedOn(j)
    /\ last.out = "PredicateError"
    /\ file[1] = Schema

\* C10: update keeps the number of stored records, whatever new_data is
\* and whether it returns or raises.
C10_UpdateKeepsRecordCount ==
    (last.op = "update" /\ pre.exists) =>
        exists /\ Len(NewRows) = Len(OldRows)

====
